---- MODULE Spec2Model ----
(***************************************************************************)
(* Model of merge_obj.py: merge_obj_files_in_memory(input_directory,       *)
(* output_file).  A Python str is a sequence of one-character strings, a   *)
(* text file is the sequence of its lines (without the line terminator),   *)
(* and the str/os.path functions the code calls are operators that do what *)
(* the library functions do on the alphabet the model's inputs use.        *)
(* Two exceptions are modelled, the ones the function's callers can meet   *)
(* from its inputs: os.listdir raising on the directory, and int() raising *)
(* on a face field.  open() is taken to succeed on the output path and on  *)
(* every listed file.                                                      *)
(***************************************************************************)
EXTENDS Integers, Sequences, FiniteSets

\* Longest directory listing the model enumerates.
MaxEntries == 3

(***************************************************************************)
(* str methods                                                             *)
(***************************************************************************)

\* The whitespace characters of the alphabet (str.strip() / str.split()).
Whitespace == {" ", "\t"}

RECURSIVE LStrip(_)
LStrip(s) ==
    IF s # <<>> /\ Head(s) \in Whitespace THEN LStrip(Tail(s)) ELSE s

RECURSIVE RStrip(_)
RStrip(s) ==
    IF s # <<>> /\ s[Len(s)] \in Whitespace
    THEN RStrip(SubSeq(s, 1, Len(s) - 1))
    ELSE s

\* line.strip()
Strip(s) == RStrip(LStrip(s))

\* s.startswith(p)
StartsWith(s, p) == Len(s) >= Len(p) /\ SubSeq(s, 1, Len(p)) = p

\* s.endswith(p)
EndsWith(s, p) ==
    Len(s) >= Len(p) /\ SubSeq(s, Len(s) - Len(p) + 1, Len(s)) = p

\* s.split(c): the fields between the occurrences of c, empty ones kept.
RECURSIVE SplitOn(_, _)
SplitOn(s, c) ==
    IF \E i \in 1..Len(s) : s[i] = c
    THEN LET i == CHOOSE k \in 1..Len(s) :
                      s[k] = c /\ \A m \in 1..(k - 1) : s[m] # c
         IN  <<SubSeq(s, 1, i - 1)>> \o SplitOn(SubSeq(s, i + 1, Len(s)), c)
    ELSE <<s>>

\* s.split(): the maximal runs of non-whitespace characters.
RECURSIVE SplitWS(_)
SplitWS(s) ==
    LET t == LStrip(s)
    IN  IF t = <<>>
        THEN <<>>
        ELSE LET n == CHOOSE k \in 1..Len(t) :
                          /\ \A m \in 1..k : t[m] \notin Whitespace
                          /\ (k = Len(t) \/ t[k + 1] \in Whitespace)
             IN  <<SubSeq(t, 1, n)>> \o SplitWS(SubSeq(t, n + 1, Len(t)))

\* sep.join(tokens)
RECURSIVE Join(_, _)
Join(tokens, sep) ==
    IF tokens = <<>> THEN <<>>
    ELSE IF Len(tokens) = 1 THEN tokens[1]
    ELSE tokens[1] \o sep \o Join(Tail(tokens), sep)

DigitChars == <<"0", "1", "2", "3", "4", "5", "6", "7", "8", "9">>

Digits == {DigitChars[i] : i \in 1..Len(DigitChars)}

DigitVal(c) == (CHOOSE i \in 1..Len(DigitChars) : DigitChars[i] = c) - 1

\* TRUE iff int(s) returns: an optional sign and at least one digit (the
\* alphabet holds no underscore and the fields hold no whitespace).
IsIntLiteral(s) ==
    LET body == IF s # <<>> /\ s[1] \in {"+", "-"} THEN Tail(s) ELSE s
    IN  body # <<>> /\ \A i \in 1..Len(body) : body[i] \in Digits

RECURSIVE NatVal(_)
NatVal(ds) ==
    IF ds = <<>> THEN 0
    ELSE 10 * NatVal(SubSeq(ds, 1, Len(ds) - 1)) + DigitVal(ds[Len(ds)])

\* int(s), for an s with IsIntLiteral(s).
IntOf(s) ==
    IF s[1] = "-" THEN 0 - NatVal(Tail(s))
    ELSE IF s[1] = "+" THEN NatVal(Tail(s))
    ELSE NatVal(s)

RECURSIVE NatStr(_)
NatStr(n) ==
    IF n < 10 THEN <<DigitChars[n + 1]>>
    ELSE NatStr(n \div 10) \o <<DigitChars[(n % 10) + 1]>>

\* f"{n}" for an int n.
Str(n) == IF n < 0 THEN <<"-">> \o NatStr(0 - n) ELSE NatStr(n)

\* Code point of a character of the file names.
Ord(c) ==
    CASE c = "." -> 46
      [] c = "B" -> 66
      [] c = "J" -> 74
      [] c = "O" -> 79
      [] c = "a" -> 97
      [] c = "b" -> 98
      [] c = "d" -> 100
      [] c = "j" -> 106
      [] c = "o" -> 111
      [] c = "t" -> 116
      [] c = "x" -> 120

\* str < str: lexicographic by code point.
RECURSIVE StrLess(_, _)
StrLess(a, b) ==
    IF b = <<>> THEN FALSE
    ELSE IF a = <<>> THEN TRUE
    ELSE IF Head(a) = Head(b) THEN StrLess(Tail(a), Tail(b))
    ELSE Ord(Head(a)) < Ord(Head(b))

LowerChar(c) ==
    CASE c = "B" -> "b"
      [] c = "J" -> "j"
      [] c = "O" -> "o"
      [] OTHER -> c

\* f.lower()
Lower(s) == [i \in 1..Len(s) |-> LowerChar(s[i])]

\* os.path.splitext(filename)[0]: the name up to its last dot, unless that
\* dot is one of the name's leading dots.
SplitextRoot(name) ==
    LET dots == {i \in 1..Len(name) : name[i] = "."}
    IN  IF dots = {}
        THEN name
        ELSE LET p == CHOOSE i \in dots : \A k \in dots : k <= i
             IN  IF \E k \in 1..(p - 1) : name[k] # "."
                 THEN SubSeq(name, 1, p - 1)
                 ELSE name

\* list.sort(): ascending and stable; insertion of each element after the
\* elements that are not greater.
RECURSIVE SortInsert(_, _)
SortInsert(x, s) ==
    IF s = <<>> THEN <<x>>
    ELSE IF StrLess(x, Head(s)) THEN <<x>> \o s
    ELSE <<Head(s)>> \o SortInsert(x, Tail(s))

\* A sort that leaves the listing in the order the directory returned it.
SortKeepsListingOrder(s) == s

RECURSIVE Sort(_)
Sort(s) ==
    IF s = <<>> THEN <<>>
    ELSE SortInsert(s[Len(s)], Sort(SubSeq(s, 1, Len(s) - 1)))

(***************************************************************************)
(* Pass 1: classification of the lines of one file                         *)
(***************************************************************************)

\* The branch of the if/elif chain a stripped line takes.
LineKind(line) ==
    IF line = <<>> THEN "blank"
    ELSE IF StartsWith(line, <<"o", " ">>) \/ StartsWith(line, <<"g", " ">>)
         THEN "og"
    ELSE IF StartsWith(line, <<"v", " ">>) THEN "v"
    ELSE IF StartsWith(line, <<"v", "t", " ">>) THEN "vt"
    ELSE IF StartsWith(line, <<"v", "n", " ">>) THEN "vn"
    ELSE IF StartsWith(line, <<"f", " ">>) THEN "f"
    ELSE "other"

\* The buffer that reverses the order in which the lines were met.
BufferReversed(text, kind) ==
    LET lines == [i \in 1..Len(text) |-> Strip(text[Len(text) + 1 - i])]
        Keep(l) == LineKind(l) = kind
    IN  SelectSeq(lines, Keep)

\* The buffer of one kind after the read loop: the stripped lines of that
\* kind, in the order met.
Buffer(text, kind) ==
    LET lines == [i \in 1..Len(text) |-> Strip(text[i])]
        Keep(l) == LineKind(l) = kind
    IN  SelectSeq(lines, Keep)

(***************************************************************************)
(* Pass 3: renumbering of one face line                                    *)
(***************************************************************************)

\* face_line.split()[1:]
FaceParts(face_line) == Tail(SplitWS(face_line))

\* An index that is the offset alone when the field is absent.
IndexDefaultsToOffset(indices, i, offset) ==
    IF Len(indices) > i - 1 /\ indices[i] # <<>>
    THEN Str(IntOf(indices[i]) + offset)
    ELSE Str(offset)

\* An index written without its offset.
IndexIgnoresOffset(indices, i, offset) ==
    IF Len(indices) > i - 1 /\ indices[i] # <<>>
    THEN Str(IntOf(indices[i]))
    ELSE <<>>

\* v_idx / t_idx / n_idx: field i (from 1) of the token plus its offset,
\* or "" when the field is omitted or empty.
Index(indices, i, offset) ==
    IF Len(indices) > i - 1 /\ indices[i] # <<>>
    THEN Str(IntOf(indices[i]) + offset)
    ELSE <<>>

\* TRUE iff one of the int() calls on the token raises ValueError.
TokenRaises(p) ==
    LET indices == SplitOn(p, "/")
    IN  \E i \in 1..3 :
            /\ Len(indices) > i - 1
            /\ indices[i] # <<>>
            /\ ~IsIntLiteral(indices[i])

\* A rebuild that drops the empty texcoord field of v//n.
RebuildCollapsing(v_idx, t_idx, n_idx) ==
    IF t_idx = <<>> /\ n_idx = <<>> THEN v_idx
    ELSE IF n_idx = <<>> THEN v_idx \o <<"/">> \o t_idx
    ELSE IF t_idx = <<>> THEN v_idx \o <<"/">> \o n_idx
    ELSE v_idx \o <<"/">> \o t_idx \o <<"/">> \o n_idx

\* "Rebuild the face token": the three f-strings.
Rebuild(v_idx, t_idx, n_idx) ==
    IF t_idx = <<>> /\ n_idx = <<>> THEN v_idx
    ELSE IF n_idx = <<>> THEN v_idx \o <<"/">> \o t_idx
    ELSE v_idx \o <<"/">> \o t_idx \o <<"/">> \o n_idx

\* The new token of one face token p.
FixToken(p, voff, toff, noff) ==
    LET indices == SplitOn(p, "/")
    IN  Rebuild(Index(indices, 1, voff),
                Index(indices, 2, toff),
                Index(indices, 3, noff))

\* TRUE iff the renumbering of the face line raises ValueError.
FaceRaises(face_line) ==
    \E k \in 1..Len(FaceParts(face_line)) : TokenRaises(FaceParts(face_line)[k])

\* The line written for a face line none of whose tokens raises.
FixFace(face_line, voff, toff, noff) ==
    LET parts == FaceParts(face_line)
        new_face_tokens ==
            [k \in 1..Len(parts) |-> FixToken(parts[k], voff, toff, noff)]
    IN  <<"f", " ">> \o Join(new_face_tokens, <<" ">>)

(***************************************************************************)
(* The inputs: the directory, its files and the output path                *)
(***************************************************************************)

NameA == <<"a", ".", "o", "b", "j">>
NameB == <<"b", ".", "o", "b", "j">>
NameUpper == <<"B", ".", "O", "B", "J">>
NameTxt == <<"a", ".", "t", "x", "t">>
NameDir == <<"d", ".", "o", "b", "j">>

\* The entries the input directory may hold.
Entries == {NameA, NameB, NameUpper, NameTxt, NameDir}

\* The entries for which os.path.isfile is true; NameDir is a directory
\* whose name ends in .obj.
RegularFiles == {NameA, NameB, NameUpper, NameTxt}

\* Interleaved kinds (a normal before the second vertex, a vertex after the
\* first face), o/g/other/blank lines, outer whitespace, and the token
\* forms v/t/n, v//n, v, v/t, v/ and v//.
TextMixed ==
    <<<<"o", " ", "x">>,
      <<"v", " ", "1">>,
      <<"v", "n", " ", "7">>,
      <<" ", "v", " ", "2", "\t">>,
      <<"v", "t", " ", "5">>,
      <<>>,
      <<"f", " ", "1", "/", "1", "/", "1", " ", "2", "/", "/", "1", " ", "2">>,
      <<"s", " ", "1">>,
      <<"v", "n", " ", "8">>,
      <<"v", " ", "3">>,
      <<"f", " ", "3", "/", "1", " ", "1", "/", " ", "2", "/", "/">>,
      <<"f", " ", "1", "/", "/", "2">>,
      <<"g", " ", "x">>>>

\* Vertices only; lines that miss the "v " / "vt " prefix; tokens parted by
\* a tab and by two spaces; an index written 01.
TextVertsOnly ==
    <<<<"v", " ", "1">>,
      <<"v", "\t", "9">>,
      <<"v", "t">>,
      <<"v", " ", "2">>,
      <<"f", " ", "1", "\t", "2", " ", " ", "0", "1">>>>

\* A negative and an out-of-range index, then a field int() rejects, then a
\* further face line.
TextMalformed ==
    <<<<"v", " ", "1">>,
      <<"f", " ", "-", "1", " ", "1", "2">>,
      <<"f", " ", "1", "/", "x", " ", "1">>,
      <<"f", " ", "1">>>>

\* A file with no line.
TextEmpty == <<>>

\* The contents a .obj file may have.
Texts == {TextMixed, TextVertsOnly, TextMalformed, TextEmpty}

\* The listings os.listdir may return: the entries of a directory in any
\* order, each once.
Listings ==
    {s \in UNION {[1..n -> Entries] : n \in 0..MaxEntries} :
        \A i, j \in 1..Len(s) : i # j => s[i] # s[j]}

\* What a file already at the output path holds.
StaleLines == <<<<"s", "t", "a", "l", "e">>>>

\* The condition of the list comprehension.
IsObjFile(f) ==
    EndsWith(Lower(f), <<".", "o", "b", "j">>) /\ f \in RegularFiles

\* The list comprehension and the sort.
ObjFiles(entries) ==
    LET Keep(f) == IsObjFile(f)
    IN  Sort(SelectSeq(entries, Keep))

\* A header without its blank line.
HeaderNoBlank == <<<<"#", " ", "M", "e", "r", "g", "e", "d", " ", "O", "B", "J", " ", "f", "i", "l", "e">>>>

\* The lines of "# Merged OBJ file\n\n".
Header == <<<<"#", " ", "M", "e", "r", "g", "e", "d", " ", "O", "B", "J", " ", "f", "i", "l", "e">>, <<>>>>

(***************************************************************************)
(* State                                                                   *)
(***************************************************************************)

VARIABLES
    listing,        \* what os.listdir(input_directory) returns
    disk,           \* the lines of each .obj file of the directory
    outExists,      \* TRUE iff a file is at the output path
    outLines,       \* the lines of the file at the output path
    pc,             \* the position of the call
    obj_files,
    fileIdx,        \* position of the for loop in obj_files
    vertex_offset,
    tex_offset,
    norm_offset,
    vertices,
    texcoords,
    normals,
    faces,
    faceIdx         \* position of the pass 3 loop in faces

inputs == <<listing, disk>>
output == <<outExists, outLines>>
offsets == <<vertex_offset, tex_offset, norm_offset>>
buffers == <<vertices, texcoords, normals, faces>>
vars == <<listing, disk, outExists, outLines, pc, obj_files, fileIdx,
          vertex_offset, tex_offset, norm_offset,
          vertices, texcoords, normals, faces, faceIdx>>

\* The file of the current iteration and the name of its block.
filename == obj_files[fileIdx]
obj_name == SplitextRoot(filename)

Init ==
    /\ listing \in Listings
    /\ disk \in [{listing[i] : i \in {k \in 1..Len(listing) : IsObjFile(listing[k])}}
                    -> Texts]
    /\ outExists \in BOOLEAN
    /\ outLines = IF outExists THEN <<StaleLines>> ELSE <<>>
    /\ pc = "listdir"
    /\ obj_files = <<>>
    /\ fileIdx = 0
    /\ vertex_offset = 0
    /\ tex_offset = 0
    /\ norm_offset = 0
    /\ vertices = <<>>
    /\ texcoords = <<>>
    /\ normals = <<>>
    /\ faces = <<>>
    /\ faceIdx = 0

(***************************************************************************)
(* Steps of merge_obj_files_in_memory                                      *)
(***************************************************************************)

\* Lines 16-25: the listing, the filter, the sort, the three offsets.
Enumerate ==
    /\ pc = "listdir"
    /\ obj_files' = ObjFiles(listing)
    /\ vertex_offset' = 0
    /\ tex_offset' = 0
    /\ norm_offset' = 0
    /\ pc' = "open"
    /\ UNCHANGED <<inputs, output, fileIdx, buffers, faceIdx>>

\* A failing listing that has opened the output file first.
ListdirFailsAfterOpen ==
    /\ pc = "listdir"
    /\ pc' = "OSError"
    /\ outExists' = TRUE
    /\ outLines' = <<>>
    /\ UNCHANGED <<inputs, obj_files, fileIdx, offsets, buffers, faceIdx>>

\* Line 17: os.listdir raises (the directory is missing or unreadable); the
\* exception leaves the function.
ListdirFails ==
    /\ pc = "listdir"
    /\ pc' = "OSError"
    /\ UNCHANGED <<inputs, output, obj_files, fileIdx, offsets, buffers, faceIdx>>

\* Lines 27-28: open(output_file, 'w') creates or truncates the file; the
\* header is written.
OpenOutput ==
    /\ pc = "open"
    /\ outExists' = TRUE
    /\ outLines' = Header
    /\ fileIdx' = 1
    /\ pc' = "loop"
    /\ UNCHANGED <<inputs, obj_files, offsets, buffers, faceIdx>>

\* Lines 30-64: the next file of the loop; pass 1 fills the four buffers.
ReadFile ==
    /\ pc = "loop"
    /\ fileIdx <= Len(obj_files)
    /\ vertices' = Buffer(disk[filename], "v")
    /\ texcoords' = Buffer(disk[filename], "vt")
    /\ normals' = Buffer(disk[filename], "vn")
    /\ faces' = Buffer(disk[filename], "f")
    /\ pc' = "og"
    /\ UNCHANGED <<inputs, output, obj_files, fileIdx, offsets, faceIdx>>

\* The group statement written before the object statement.
WriteGroupObject ==
    /\ pc = "og"
    /\ outLines' = outLines \o <<<<"g", " ">> \o obj_name, <<"o", " ">> \o obj_name>>
    /\ pc' = "v"
    /\ UNCHANGED <<inputs, outExists, obj_files, fileIdx, offsets, buffers, faceIdx>>

\* Lines 67-68.
WriteObjectGroup ==
    /\ pc = "og"
    /\ outLines' = outLines \o <<<<"o", " ">> \o obj_name, <<"g", " ">> \o obj_name>>
    /\ pc' = "v"
    /\ UNCHANGED <<inputs, outExists, obj_files, fileIdx, offsets, buffers, faceIdx>>

\* Lines 71-72.
WriteVertices ==
    /\ pc = "v"
    /\ outLines' = outLines \o vertices
    /\ pc' = "vt"
    /\ UNCHANGED <<inputs, outExists, obj_files, fileIdx, offsets, buffers, faceIdx>>

\* Lines 73-74.
WriteTexcoords ==
    /\ pc = "vt"
    /\ outLines' = outLines \o texcoords
    /\ pc' = "vn"
    /\ UNCHANGED <<inputs, outExists, obj_files, fileIdx, offsets, buffers, faceIdx>>

\* Lines 75-76; pass 3 starts at the first face line.
WriteNormals ==
    /\ pc = "vn"
    /\ outLines' = outLines \o normals
    /\ faceIdx' = 1
    /\ pc' = "f"
    /\ UNCHANGED <<inputs, outExists, obj_files, fileIdx, offsets, buffers>>

\* Lines 79-112, one iteration: the face line is renumbered and written.
WriteFace ==
    /\ pc = "f"
    /\ faceIdx <= Len(faces)
    /\ ~FaceRaises(faces[faceIdx])
    /\ outLines' = outLines \o
            <<FixFace(faces[faceIdx], vertex_offset, tex_offset, norm_offset)>>
    /\ faceIdx' = faceIdx + 1
    /\ UNCHANGED <<inputs, outExists, pc, obj_files, fileIdx, offsets, buffers>>

\* A malformed face line that is skipped, the loop going on.
FaceValueErrorSkipped ==
    /\ pc = "f"
    /\ faceIdx <= Len(faces)
    /\ FaceRaises(faces[faceIdx])
    /\ faceIdx' = faceIdx + 1
    /\ UNCHANGED <<inputs, output, pc, obj_files, fileIdx, offsets, buffers>>

\* Lines 88, 94, 100: int() raises ValueError before the line is written;
\* the with statement closes the output file and the exception leaves the
\* function.
FaceValueError ==
    /\ pc = "f"
    /\ faceIdx <= Len(faces)
    /\ FaceRaises(faces[faceIdx])
    /\ pc' = "ValueError"
    /\ UNCHANGED <<inputs, output, obj_files, fileIdx, offsets, buffers, faceIdx>>

\* An offset set to the count of the file instead of advanced by it.
OffsetReplaced(offset, buffer) == Len(buffer)

\* offset += len(buffer)
Advanced(offset, buffer) == offset + Len(buffer)

\* Lines 115-117, after the last face line; the loop goes to the next file.
AdvanceOffsets ==
    /\ pc = "f"
    /\ faceIdx > Len(faces)
    /\ vertex_offset' = Advanced(vertex_offset, vertices)
    /\ tex_offset' = Advanced(tex_offset, texcoords)
    /\ norm_offset' = Advanced(norm_offset, normals)
    /\ fileIdx' = fileIdx + 1
    /\ pc' = "loop"
    /\ UNCHANGED <<inputs, output, obj_files, buffers, faceIdx>>

\* The loop is over: the with statement closes the output file and the
\* function returns.
CloseOutput ==
    /\ pc = "loop"
    /\ fileIdx > Len(obj_files)
    /\ pc' = "done"
    /\ UNCHANGED <<inputs, output, obj_files, fileIdx, offsets, buffers, faceIdx>>

Next ==
    \/ Enumerate
    \/ ListdirFails
    \/ OpenOutput
    \/ ReadFile
    \/ WriteObjectGroup
    \/ WriteVertices
    \/ WriteTexcoords
    \/ WriteNormals
    \/ WriteFace
    \/ FaceValueError
    \/ AdvanceOffsets
    \/ CloseOutput

Spec == Init /\ [][Next]_vars

(***************************************************************************)
(* Vocabulary of the claims: the inputs and the output file as a reader of *)
(* OBJ text takes them.  None of it is used by the steps above, and none   *)
(* of it uses Buffer, the offsets or the order of obj_files.               *)
(***************************************************************************)

\* The .obj files of the directory, as a set: what the merge has to merge,
\* whatever the order of the listing.
MergeSet == {f \in {listing[i] : i \in 1..Len(listing)} : IsObjFile(f)}

\* The files of MergeSet in ascending order of their names.
MergedNames ==
    CHOOSE s \in [1..Cardinality(MergeSet) -> MergeSet] :
        \A i, j \in 1..Cardinality(MergeSet) : i < j => StrLess(s[i], s[j])

\* The element kind a face field refers to: v/vt/vn.
FieldKinds == <<"v", "vt", "vn">>

\* The lines of one kind of a text as an OBJ reader takes them: outer
\* whitespace off, in the order of the text.
SourceLines(text, kind) ==
    LET Keep(l) == LineKind(l) = kind
    IN  SelectSeq([i \in 1..Len(text) |-> Strip(text[i])], Keep)

\* Number of lines of one kind in a file.
CountOf(name, kind) == Len(SourceLines(disk[name], kind))

\* Sum of the counts of one kind over the first k - 1 files of a sequence.
RECURSIVE PriorCount(_, _, _)
PriorCount(names, k, kind) ==
    IF k <= 1 THEN 0
    ELSE PriorCount(names, k - 1, kind) + CountOf(names[k - 1], kind)

\* The blocks of the output file: a block starts at each "o " line.
BlockStarts == {i \in 1..Len(outLines) : StartsWith(outLines[i], <<"o", " ">>)}

NumBlocks == Cardinality(BlockStarts)

BlockStart(k) ==
    CHOOSE i \in BlockStarts : Cardinality({j \in BlockStarts : j < i}) = k - 1

OutBlock(k) ==
    SubSeq(outLines, BlockStart(k),
           IF k = NumBlocks THEN Len(outLines) ELSE BlockStart(k + 1) - 1)

LinesOfKind(lines, kind) ==
    LET Keep(l) == LineKind(l) = kind
    IN  SelectSeq(lines, Keep)

\* The face lines of block k of the output, and those of the k-th file.
OutFaces(k) == LinesOfKind(OutBlock(k), "f")
InFaces(k) == SourceLines(disk[MergedNames[k]], "f")

\* Field i (1: vertex, 2: texcoord, 3: normal) of a face token as an OBJ
\* reader takes it; <<>> when the token has no such field or it is empty.
FieldAt(tok, i) ==
    LET fields == SplitOn(tok, "/")
    IN  IF i <= Len(fields) THEN fields[i] ELSE <<>>

Min(a, b) == IF a < b THEN a ELSE b

\* The face lines written so far, each with the input line it comes from:
\* <<k, input line, output line>>.
WrittenFaces ==
    UNION {{<<k, InFaces(k)[j], OutFaces(k)[j]>> :
                j \in 1..Min(Len(OutFaces(k)), Len(InFaces(k)))} :
            k \in 1..Min(NumBlocks, Len(MergedNames))}

\* The face tokens written so far: <<k, input token, output token>>.
WrittenTokens ==
    UNION {{<<w[1], FaceParts(w[2])[m], FaceParts(w[3])[m]>> :
                m \in 1..Min(Len(FaceParts(w[2])), Len(FaceParts(w[3])))} :
            w \in WrittenFaces}

\* Every face field of the text is a positive integer that refers to an
\* element of the text itself.
ValidText(text) ==
    \A j \in 1..Len(SourceLines(text, "f")) :
        LET parts == FaceParts(SourceLines(text, "f")[j])
        IN  \A m \in 1..Len(parts) :
                /\ Len(SplitOn(parts[m], "/")) <= 3
                /\ \A i \in 1..3 :
                      FieldAt(parts[m], i) # <<>> =>
                        /\ IsIntLiteral(FieldAt(parts[m], i))
                        /\ IntOf(FieldAt(parts[m], i)) \in
                              1..Len(SourceLines(text, FieldKinds[i]))

AllValid == \A f \in MergeSet : ValidText(disk[f])

\* The call is over, by return or by an exception: the output file is
\* closed, and holds all that was written.
Returned == pc \in {"done", "ValueError", "OSError"}

\* The block of the k-th file of a sequence of names, as the spec defines
\* it, up to its n-th face line; the whole block; the merge of the first n
\* files in that order.
RefBlockUpTo(names, k, n) ==
    LET text == disk[names[k]]
        root == SplitextRoot(names[k])
        fs == SourceLines(text, "f")
    IN  <<<<"o", " ">> \o root, <<"g", " ">> \o root>>
        \o SourceLines(text, "v")
        \o SourceLines(text, "vt")
        \o SourceLines(text, "vn")
        \o [j \in 1..n |->
               FixFace(fs[j], PriorCount(names, k, "v"),
                       PriorCount(names, k, "vt"), PriorCount(names, k, "vn"))]

RefBlock(names, k) ==
    RefBlockUpTo(names, k, Len(SourceLines(disk[names[k]], "f")))

RECURSIVE RefBlocks(_, _)
RefBlocks(names, n) ==
    IF n = 0 THEN <<>> ELSE RefBlocks(names, n - 1) \o RefBlock(names, n)

CommentLine ==
    <<"#", " ", "M", "e", "r", "g", "e", "d", " ", "O", "B", "J", " ",
      "f", "i", "l", "e">>

(***************************************************************************)
(* Claims                                                                  *)
(***************************************************************************)

\* C1: when every face field of every merged file is a positive integer
\* that refers to an element of its own file, every face index written in
\* the block of file k lies in P + 1 .. P + C_k, with P the sum of the
\* counts of that kind over the files merged before k and C_k the count of
\* file k.
C1_FaceIndicesInOwnRange ==
    (pc = "done" /\ AllValid) =>
        /\ NumBlocks <= Len(MergedNames)
        /\ \A k \in 1..NumBlocks :
             \A j \in 1..Len(OutFaces(k)) :
               LET parts == FaceParts(OutFaces(k)[j])
               IN  \A m \in 1..Len(parts) :
                     \A i \in 1..3 :
                       FieldAt(parts[m], i) # <<>> =>
                         /\ IsIntLiteral(FieldAt(parts[m], i))
                         /\ IntOf(FieldAt(parts[m], i)) \in
                              (PriorCount(MergedNames, k, FieldKinds[i]) + 1) ..
                              (PriorCount(MergedNames, k, FieldKinds[i])
                                 + CountOf(MergedNames[k], FieldKinds[i]))

\* Three valid files are merged, each with elements and faces of its own.
C1_Witness ==
    /\ pc = "done"
    /\ AllValid
    /\ NumBlocks = 3
    /\ \A k \in 1..3 : OutFaces(k) # <<>>
    /\ PriorCount(MergedNames, 2, "vn") > 0

\* C3: in the file the call leaves, a face token v//n is written as v'//n', with v' = v + vertex offset
\* and n' = n + normal offset: three fields, the middle one empty.
C3_DoubleSlashKept ==
    Returned => \A t \in WrittenTokens :
        LET in == SplitOn(t[2], "/")
            k == t[1]
        IN  (Len(in) = 3 /\ in[2] = <<>>
                /\ IsIntLiteral(in[1]) /\ IsIntLiteral(in[3])) =>
              /\ t[3] = Str(IntOf(in[1]) + PriorCount(MergedNames, k, "v"))
                          \o <<"/", "/">>
                          \o Str(IntOf(in[3]) + PriorCount(MergedNames, k, "vn"))
              /\ Len(SplitOn(t[3], "/")) = 3
              /\ FieldAt(t[3], 2) = <<>>
              /\ IsIntLiteral(FieldAt(t[3], 3))
              /\ IntOf(FieldAt(t[3], 3)) =
                    IntOf(in[3]) + PriorCount(MergedNames, k, "vn")

\* A v//n token of the second file is written with both offsets above 0.
C3_Witness ==
    Returned /\ \E t \in WrittenTokens :
        /\ t[1] = 2
        /\ t[2] = <<"2", "/", "/", "1">>
        /\ PriorCount(MergedNames, 2, "v") > 0
        /\ PriorCount(MergedNames, 2, "vn") > 0

\* C5: in the file the call leaves, a face token without a slash is written as the bare integer index
\* plus the vertex offset, and a field that is absent in the input token
\* (empty or omitted) is absent in the written token.
C5_AbsentStaysAbsent ==
    Returned =>
    /\ \A w \in WrittenFaces : Len(FaceParts(w[3])) = Len(FaceParts(w[2]))
    /\ \A t \in WrittenTokens :
        /\ (Len(SplitOn(t[2], "/")) = 1 /\ IsIntLiteral(t[2])) =>
              t[3] = Str(IntOf(t[2]) + PriorCount(MergedNames, t[1], "v"))
        /\ \A i \in 1..3 : FieldAt(t[2], i) = <<>> => FieldAt(t[3], i) = <<>>
        /\ Len(SplitOn(t[3], "/")) <= Len(SplitOn(t[2], "/"))

\* A bare token and a token with empty trailing fields of the second file
\* are written, with all three offsets above 0.
C5_Witness ==
    /\ Returned
    /\ \E t \in WrittenTokens :
          t[1] = 2 /\ t[2] = <<"2">> /\ t[3] = <<"5">>
    /\ \E t \in WrittenTokens : t[1] = 2 /\ t[2] = <<"2", "/", "/">>
    /\ PriorCount(MergedNames, 2, "vt") > 0
    /\ PriorCount(MergedNames, 2, "vn") > 0

\* C2: whatever the order of the listing, the merged output is the header
\* and then the blocks of the .obj files in ascending order of their names,
\* each block whole before the next.
C2_BlocksInNameOrder ==
    pc = "done" =>
        /\ outExists
        /\ outLines = <<CommentLine, <<>>>>
                        \o RefBlocks(MergedNames, Cardinality(MergeSet))
        /\ \A k \in 1..NumBlocks :
              OutBlock(k)[1] = <<"o", " ">> \o SplitextRoot(MergedNames[k])

\* Three files were merged from a listing that is not in ascending order.
C2_Witness ==
    /\ pc = "done"
    /\ NumBlocks = 3
    /\ listing # MergedNames

\* C4: the merge of a directory with one .obj file writes the header, the
\* o and g lines, then the file's vertex, texcoord, normal and face lines,
\* none lost, added or reordered within its kind, and every face index is
\* numerically the index of the input.
C4_SingleFileRoundTrip ==
    (pc = "done" /\ Cardinality(MergeSet) = 1) =>
        LET text == disk[MergedNames[1]]
            root == SplitextRoot(MergedNames[1])
            body == SubSeq(outLines, 5, Len(outLines))
            infaces == SourceLines(text, "f")
            outfaces == LinesOfKind(body, "f")
        IN  /\ Len(outLines) >= 4
            /\ SubSeq(outLines, 1, 4) =
                  <<CommentLine, <<>>, <<"o", " ">> \o root, <<"g", " ">> \o root>>
            /\ \A kind \in {"v", "vt", "vn"} :
                  LinesOfKind(body, kind) = SourceLines(text, kind)
            /\ Len(outfaces) = Len(infaces)
            /\ Len(body) = Len(SourceLines(text, "v")) + Len(SourceLines(text, "vt"))
                            + Len(SourceLines(text, "vn")) + Len(infaces)
            /\ \A j \in 1..Min(Len(infaces), Len(outfaces)) :
                  LET in == FaceParts(infaces[j])
                      out == FaceParts(outfaces[j])
                  IN  /\ Len(out) = Len(in)
                      /\ \A m \in 1..Min(Len(in), Len(out)) :
                           \A i \in 1..3 :
                             IF FieldAt(in[m], i) = <<>>
                             THEN FieldAt(out[m], i) = <<>>
                             ELSE /\ IsIntLiteral(FieldAt(out[m], i))
                                  /\ IntOf(FieldAt(out[m], i)) =
                                        IntOf(FieldAt(in[m], i))

\* The one .obj file of the directory, beside another entry, is the text
\* with interleaved kinds and every token form.
C4_Witness ==
    /\ pc = "done"
    /\ Cardinality(MergeSet) = 1
    /\ Len(listing) > 1
    /\ disk[MergedNames[1]] = TextMixed

\* C8: the merge of a directory without a .obj file leaves an output file
\* that holds the comment line and one blank line, and nothing else.
C8_EmptyMergeIsHeader ==
    (pc = "done" /\ MergeSet = {}) =>
        /\ outExists
        /\ outLines = <<CommentLine, <<>>>>

\* The directory holds a non-.obj file and a directory named like a .obj
\* file, and no .obj file.
C8_Witness ==
    /\ pc = "done"
    /\ MergeSet = {}
    /\ Len(listing) = 2

\* TRUE iff a field of the face line is not an integer.
HasBadField(face_line) ==
    \E m \in 1..Len(FaceParts(face_line)) :
        \E i \in 1..3 :
            /\ FieldAt(FaceParts(face_line)[m], i) # <<>>
            /\ ~IsIntLiteral(FieldAt(FaceParts(face_line)[m], i))

\* The files of MergedNames that hold such a face line, by position.
BadFiles ==
    {k \in 1..Len(MergedNames) :
        \E j \in 1..Len(InFaces(k)) : HasBadField(InFaces(k)[j])}

\* What the output file holds when the first malformed face line is met:
\* the header, the blocks of the files before, and the block of the failing
\* file up to the face line before the failing one.
PartialMerge ==
    LET k == CHOOSE b \in BadFiles : \A c \in BadFiles : b <= c
        j == CHOOSE n \in 1..Len(InFaces(k)) :
                /\ HasBadField(InFaces(k)[n])
                /\ \A m \in 1..(n - 1) : ~HasBadField(InFaces(k)[m])
    IN  <<CommentLine, <<>>>>
        \o RefBlocks(MergedNames, k - 1)
        \o RefBlockUpTo(MergedNames, k, j - 1)

\* C6, as claimed: after a face-index field failed integer parsing the
\* output holds no merged block at all.
C6_AllOrNothing == pc = "ValueError" => NumBlocks = 0

\* C6, amended: a face-index field that fails integer parsing ends the
\* merge at once, the face line that holds it is not written and no step
\* follows (nothing is skipped and resumed); the output file is left with
\* the header, the whole blocks of the files merged before, and the failing
\* file's o, g, vertex, texcoord and normal lines and the face lines before
\* the failing one.
C6_FatalWithPartialOutput ==
    /\ [](pc = "ValueError" => (BadFiles # {} /\ outLines = PartialMerge))
    /\ [](pc = "done" => BadFiles = {})
    /\ [][(pc = "f" /\ faceIdx <= Len(faces) /\ HasBadField(faces[faceIdx]))
            => (pc' = "ValueError" /\ outLines' = outLines)]_vars
    /\ [][pc # "ValueError"]_vars

\* The second file fails at its second face line: a whole block and a
\* part of a block are in the output file.
C6_Witness ==
    /\ pc = "ValueError"
    /\ fileIdx = 2
    /\ faceIdx = 2
    /\ NumBlocks = 2
    /\ Len(OutFaces(1)) > 0
    /\ Len(OutFaces(2)) = 1
    /\ Len(obj_files) = 3

\* C7: when the listing of the input directory fails, the call ends with
\* the error before the output file is opened: no file is created at the
\* output path, and a file already there keeps its content.
C7_ListingErrorLeavesOutput ==
    /\ [](pc = "OSError" =>
            outLines = (IF outExists THEN <<StaleLines>> ELSE <<>>))
    /\ [][pc' = "OSError" =>
            (pc = "listdir" /\ outExists' = outExists /\ outLines' = outLines)]_vars
    /\ [][pc # "OSError"]_vars

\* The listing failed with a file already at the output path.
C7_Witness ==
    /\ pc = "OSError"
    /\ outExists
    /\ outLines = <<StaleLines>>

\* C9: the three offsets are 0 at the start; at every point of the
\* processing of file k each is the sum of the counts of its kind over the
\* files merged before k; they change only in the step after the last face
\* line of the file, once per file, by the counts of that file; they never
\* decrease; and every face line is written with the start-of-file values.
C9_OffsetsAreCumulativeCounts ==
    /\ [](pc \in {"open", "loop", "og", "v", "vt", "vn", "f", "ValueError", "done"} =>
            /\ vertex_offset = PriorCount(obj_files, fileIdx, "v")
            /\ tex_offset = PriorCount(obj_files, fileIdx, "vt")
            /\ norm_offset = PriorCount(obj_files, fileIdx, "vn"))
    /\ [](pc = "open" => offsets = <<0, 0, 0>>)
    /\ [][offsets' # offsets =>
            /\ pc = "f" /\ pc' = "loop"
            /\ faceIdx = Len(SourceLines(disk[filename], "f")) + 1
            /\ Len(OutFaces(NumBlocks)) = Len(SourceLines(disk[filename], "f"))
            /\ fileIdx' = fileIdx + 1]_vars
    /\ [][(fileIdx' # fileIdx /\ fileIdx >= 1) =>
            /\ fileIdx' = fileIdx + 1
            /\ vertex_offset' = vertex_offset + CountOf(filename, "v")
            /\ tex_offset' = tex_offset + CountOf(filename, "vt")
            /\ norm_offset' = norm_offset + CountOf(filename, "vn")]_vars
    /\ [][/\ vertex_offset' >= vertex_offset
          /\ tex_offset' >= tex_offset
          /\ norm_offset' >= norm_offset]_vars
    /\ [][(pc = "f" /\ Len(outLines') > Len(outLines)) =>
            LET in == FaceParts(SourceLines(disk[filename], "f")[faceIdx])
                out == FaceParts(outLines'[Len(outLines')])
            IN  /\ Len(out) = Len(in)
                /\ \A m \in 1..Min(Len(in), Len(out)) :
                     \A i \in 1..3 :
                       FieldAt(in[m], i) # <<>> =>
                         /\ IsIntLiteral(FieldAt(out[m], i))
                         /\ IntOf(FieldAt(out[m], i)) - IntOf(FieldAt(in[m], i))
                              = PriorCount(obj_files, fileIdx, FieldKinds[i])]_vars

\* A face line of the third file is written after two files that hold
\* elements of every kind.
C9_Witness ==
    /\ pc = "f"
    /\ fileIdx = 3
    /\ faceIdx = 2
    /\ disk[obj_files[1]] = TextMixed
    /\ disk[obj_files[2]] = TextMixed
    /\ vertex_offset = 6
    /\ tex_offset = 2
    /\ norm_offset = 4

\* The output file has been opened by the call.
Opened == pc \notin {"listdir", "open", "OSError"}

\* The part of block k of the output after its o and g lines.
BlockBody(k) == SubSeq(OutBlock(k), 3, Len(OutBlock(k)))

IsPrefix(a, b) == Len(a) <= Len(b) /\ SubSeq(b, 1, Len(a)) = a

\* C10: the header is written first and once; then each file's block is
\* written in one piece, in the order o, g, vertex lines, texcoord lines,
\* normal lines, face lines, each kind in the order of the source file; the
\* writes only append, so no line of a block lies within another block.
C10_WriteOrder ==
    /\ [](Opened =>
            /\ IsPrefix(<<CommentLine, <<>>>>, outLines)
            /\ \A n \in 3..Len(outLines) :
                  LineKind(outLines[n]) \in {"og", "v", "vt", "vn", "f"}
            /\ Len(outLines) > 2 => 3 \in BlockStarts
            /\ NumBlocks = IF pc \in {"loop", "og", "done"}
                           THEN fileIdx - 1 ELSE fileIdx
            /\ \A k \in 1..NumBlocks :
                  LET text == disk[obj_files[k]]
                      elems == SourceLines(text, "v") \o SourceLines(text, "vt")
                                 \o SourceLines(text, "vn")
                      body == BlockBody(k)
                      nf == Len(body) - Len(elems)
                  IN  /\ IsPrefix(<<<<"o", " ">> \o SplitextRoot(obj_files[k]),
                                    <<"g", " ">> \o SplitextRoot(obj_files[k])>>,
                                  OutBlock(k))
                      /\ IsPrefix(body, elems) \/ IsPrefix(elems, body)
                      /\ nf <= Len(SourceLines(text, "f"))
                      /\ \A n \in (Len(elems) + 1)..Len(body) :
                            LineKind(body[n]) = "f"
                      /\ (k < fileIdx) => nf = Len(SourceLines(text, "f"))
                      /\ (k = fileIdx /\ pc = "vt") => body = SourceLines(text, "v")
                      /\ (k = fileIdx /\ pc = "vn") =>
                            body = SourceLines(text, "v") \o SourceLines(text, "vt")
                      /\ (k = fileIdx /\ pc = "f") => nf = faceIdx - 1)
    /\ [][Opened => IsPrefix(outLines, outLines')]_vars

\* The face lines of the second block are being written, after a first
\* block, for a file whose kinds are interleaved.
C10_Witness ==
    /\ pc = "f"
    /\ fileIdx = 2
    /\ faceIdx = 3
    /\ disk[obj_files[2]] = TextMixed
    /\ Len(OutFaces(1)) > 0

====
